---- MODULE Spec2Model ----
(***************************************************************************)
(* A model of viewer.py: the offline mirror of one web page.  The state is *)
(* the cache directory, the three threads of control (main, RefetchThread, *)
(* ReloadWatcher), the reload queue and the position of the fetch cycle    *)
(* that one of the threads is running.                                     *)
(*                                                                         *)
(* Data.  A URL is a record [scheme, host, path, query]; the path is a     *)
(* sequence of segments [stem, par, ext], written stem;par.ext ("a.css"    *)
(* has stem "a" and ext "css", "png;base64" has stem "png" and par         *)
(* "base64"; the empty segment is what a doubled or trailing slash         *)
(* leaves).  A reference found in a document or a stylesheet is a URL      *)
(* too, with host "" when it is root-relative ("/a.css") or a data: URI    *)
(* ("data:image/png;base64,...").  The bytes                               *)
(* of a response or of a file are a record [tag, refs, base]: tag names    *)
(* the byte string, refs is the set of references a parser finds in it     *)
(* and base tells whether it holds a <base> element.                       *)
(***************************************************************************)
EXTENDS Integers, Sequences, FiniteSets, TLC

(* ------------------------------ bounds -------------------------------- *)

\* RefetchThread cycles a behaviour may start (the loop itself is unbounded)
MaxCycles == 2

\* times the origin may change what it serves during one behaviour
MaxChanges == 1

(* ----------------------------- constants ------------------------------ *)

\* RefetchThread.__init__: self.interval = max(10, int(interval))
MinInterval == 10

(* ------------------------------- URLs --------------------------------- *)

Seg(s, e) == [stem |-> s, par |-> "", ext |-> e]

\* a segment with a ";": "s;p" when e is "", "s;p.e" otherwise
SegPar(s, p, e) == [stem |-> s, par |-> p, ext |-> e]

EmptySeg == Seg("", "")

Url(h, p, q) == [scheme |-> "http", host |-> h, path |-> p, query |-> q]

\* "data:" followed by the path p: no host, no query
DataUrl(p) == [scheme |-> "data", host |-> "", path |-> p, query |-> ""]

\* cfg["target-url"]: the page that is mirrored
TargetUrl == Url("h1", <<>>, "")

\* the references the modelled documents and stylesheets are built from
RefCss == Url("", <<Seg("a", "css")>>, "")

RefJs == Url("h1", <<Seg("f", "js")>>, "")

RefJsV2 == Url("h1", <<Seg("f", "js")>>, "v2")

RefPage == Url("", <<Seg("p", "html")>>, "")

RefIndex == Url("", <<Seg("index", "")>>, "")

\* "data:image/png;base64,AAAA", an inline image
RefData == DataUrl(<<Seg("image", ""), SegPar("png", "base64", "")>>)

Refs == {RefCss, RefJs, RefJsV2, RefPage, RefIndex, RefData}

\* urllib.parse.urljoin(base, ref) for an absolute or a root-relative ref; a
\* ref with a scheme of its own is returned as it is
UrlJoin(base, ref) ==
    IF ref.scheme = "data" THEN ref
    ELSE IF ref.host = "" THEN [ref EXCEPT !.host = base.host]
    ELSE ref

\* str.endswith(".html") on the absolute URL: the query is part of the string
EndsWithHtml(u) ==
    /\ u.query = ""
    /\ u.path # <<>>
    /\ u.path[Len(u.path)].ext = "html"

\* the order of sorted() on absolute URL strings, as a key per URL
HostKey(h) == CASE h = "" -> 0 [] h = "h1" -> 1 [] h = "h2" -> 2 [] OTHER -> 3

StemKey(s) ==
    CASE s = "" -> 0 [] s = "a" -> 1 [] s = "d" -> 2 [] s = "f" -> 3
      [] s = "index" -> 4 [] s = "p" -> 5 [] OTHER -> 6

QueryKey(q) == CASE q = "" -> 0 [] OTHER -> 1

UrlKey(u) ==
    HostKey(u.host) * 100
    + (IF u.path = <<>> THEN 0 ELSE StemKey(u.path[1].stem) * 10)
    + QueryKey(u.query)

RECURSIVE SortedUrls(_)
\* sorted(S): the URLs of S in ascending order
SortedUrls(S) ==
    IF S = {} THEN <<>>
    ELSE LET m == CHOOSE x \in S : \A y \in S : UrlKey(x) <= UrlKey(y)
         IN  <<m>> \o SortedUrls(S \ {m})

(* ---------------------------- Path Mapper ----------------------------- *)

NonEmptySeg(s) == s # EmptySeg

\* urlparse(url).path: for a scheme that takes parameters (http, not data) the
\* last segment is cut at its first ";", the rest is parsed.params
UrlParsePath(u) ==
    LET n == Len(u.path)
    IN  IF u.scheme = "http" /\ n > 0 /\ u.path[n].par # ""
        THEN [u.path EXCEPT ![n] = Seg(u.path[n].stem, "")]
        ELSE u.path

\* pathlib: Path(netloc) / path.lstrip("/") drops empty components
PathParts(u) ==
    (IF u.host = "" THEN <<>> ELSE <<Seg(u.host, "")>>)
    \o SelectSeq(UrlParsePath(u), NonEmptySeg)

\* safe_path_for_url: the path below cache_root a URL is stored at
SafeRel(u) ==
    LET parts == PathParts(u)
        rel   == IF parts = <<>> THEN <<>> ELSE Tail(parts)
        named == IF rel = <<>> THEN <<Seg("index", "html")>> ELSE rel
        n     == Len(named)
    IN  IF named[n].ext = ""
        THEN [named EXCEPT ![n].ext = "html"]
        ELSE named

\* cache_root / "index.html"
IndexPath == <<Seg("index", "html")>>

(* ------------------------------ contents ------------------------------ *)

Bytes(t, r, b) == [tag |-> t, refs |-> r, base |-> b]

\* dest.exists() is false, index_path.exists() is false
NoFile == Bytes(-1, {}, FALSE)

\* a response that is an error: an exception of session.get / raise_for_status
Fail == Bytes(-2, {}, FALSE)

\* a response whose content the cycle has not asked the origin for yet
Unknown == Bytes(-3, {}, FALSE)

\* the primary documents an origin may serve
DocPlain == Bytes(10, {RefJs}, FALSE)

DocA == Bytes(11, {RefCss, RefPage}, FALSE)

DocB == Bytes(12, {RefJs, RefJsV2, RefData}, TRUE)

\* the bodies an origin may serve for an asset; a stylesheet's url(...) are refs
BodyRefs == Bytes(2, {RefIndex, RefData}, FALSE)

BodyLinked == Bytes(3, {RefJs}, FALSE)

\* an origin with one page and one body, and one whose pages and bodies vary
PlainSite == [docs |-> {DocPlain}, bodies |-> {BodyLinked}]

RichSite == [docs |-> {DocA, DocB}, bodies |-> {BodyLinked, BodyRefs}]

\* ./assets/backup.html, ./assets/backup.css and the inline placeholder
BackupDoc == Bytes(20, {}, FALSE)

BackupCss == Bytes(21, {}, FALSE)

Placeholder == Bytes(22, {}, FALSE)

\* every absolute URL a cycle can meet
AssetUrls == {UrlJoin(TargetUrl, r) : r \in Refs}

BackupCssPath == <<Seg("backup", "css")>>

LocalPaths == {SafeRel(u) : u \in AssetUrls} \cup {IndexPath, BackupCssPath}

\* cfg["preload-paths"] of the modelled configurations
PreloadChoices == {{}, {RefCss}}

\* cfg["refresh-interval-sec"] of the modelled configurations
IntervalChoices == {1, 11}

(* --------------------- Asset Extractor, Document Rewriter -------------- *)

\* extract_asset_urls: link[href], script[src], img[src] joined to the base
ExtractAssetUrls(base, html) == {UrlJoin(base, r) : r \in html.refs}

\* extract_urls_from_css: url(...) and @import joined to the stylesheet's URL,
\* but those that start with "data:"
ExtractUrlsFromCss(base, css) ==
    {UrlJoin(base, r) : r \in {x \in css.refs : x.scheme # "data"}}

\* to_rel: "/" + the path relative to cache_root
ToRel(p) == Url("", p, "")

\* rewrite_html_to_local: every reference becomes its local path, <base> is added
RewriteHtmlToLocal(html, base) ==
    Bytes(html.tag, {ToRel(SafeRel(UrlJoin(base, r))) : r \in html.refs}, TRUE)

\* download_file without the comparison of line 150: every answer is written
DownloadWritesAlways(resp, old) == resp # Fail

\* download_file that never replaces a file that exists
DownloadWritesOnlyNew(resp, old) == resp # Fail /\ old = NoFile

\* download_file that takes the error for content (no try around session.get)
DownloadWritesErrors(resp, old) == old # resp

\* download_file, lines 149-156: whether the fetched content is written
DownloadWrites(resp, old) == resp # Fail /\ old # resp

(* ------------------------------- state -------------------------------- *)

VARIABLES
    files,        \* the cache directory: LocalPath -> bytes, NoFile when absent
    site,         \* the origin: the documents and bodies it may serve
    preload,      \* cfg["preload-paths"]
    cfgInterval,  \* cfg["refresh-interval-sec"]
    mainPc,       \* where main() is
    serverUp,     \* the ThreadingHTTPServer serves cache_root
    schedPc,      \* where RefetchThread.run is
    interval,     \* RefetchThread.interval
    slept,        \* the local slept of RefetchThread.run
    refStop,      \* RefetchThread._stop
    cycles,       \* cycles RefetchThread has started
    watcherPc,    \* where ReloadWatcher.run is
    watchStop,    \* ReloadWatcher._stop
    missed,       \* the last evaluate_js of ReloadWatcher raised
    reloadQ,      \* messages waiting in reload_q (each is "reload")
    inFetch,      \* the threads that are inside fetch_snapshot
    fpc,          \* where fetch_snapshot is
    oldHtml,      \* old_html
    docResp,      \* the response to session.get(target_url) of this cycle
    todo,         \* the URLs the running pass has still to visit, sorted
    cssAssets,    \* css_assets
    changedAny,   \* changed_any
    remoteDoc,    \* what the origin answers for target_url, Unknown until asked
    remote,       \* what the origin answers for each asset URL, Unknown until asked
    changes,      \* times the origin has changed what it serves
    seen,         \* the asset URLs this cycle has reached
    files0,       \* the cache as it was when this cycle started
    prev,         \* the responses of the cycle that completed before this one
    lastDl,       \* the last call of download_file: url, response, result
    mapIn,        \* two URLs given to safe_path_for_url
    mapOut,       \* the two paths it returned, <<>> before the calls
    rwIn,         \* a document given to rewrite_html_to_local
    rwOut         \* what the calls returned, each applied to the result before

vars ==
    <<files, site, preload, cfgInterval, mainPc, serverUp, schedPc, interval, slept,
      refStop, cycles, watcherPc, watchStop, missed, reloadQ, inFetch, fpc,
      oldHtml, docResp, todo, cssAssets, changedAny, remoteDoc, remote,
      changes, seen, files0, prev, lastDl, mapIn, mapOut, rwIn, rwOut>>

mainVars == <<mainPc, serverUp>>

schedVars == <<schedPc, interval, slept, cycles>>

watcherVars == <<watcherPc, missed>>

stopVars == <<refStop, watchStop>>

cfgVars == <<site, preload, cfgInterval, mapIn, mapOut, rwIn, rwOut>>

originVars == <<remoteDoc, remote, changes>>

fetchVars ==
    <<inFetch, fpc, oldHtml, docResp, todo, cssAssets, changedAny, seen,
      files0, prev, lastDl>>

NoDownload == [url |-> TargetUrl, resp |-> Unknown, ret |-> FALSE, raised |-> FALSE]

NoPrev == [doc |-> Unknown, got |-> [u \in AssetUrls |-> Unknown]]

\* the process runs: daemon threads end with the interpreter
Alive == mainPc # "exited"

\* main is called and finds the cache directory as an earlier run left it
StartWith(cache) ==
    /\ files = cache
    /\ mainPc = "boot"
    /\ serverUp = FALSE
    /\ schedPc = "notStarted"
    /\ interval = 0
    /\ slept = 0
    /\ refStop = FALSE
    /\ cycles = 0
    /\ watcherPc = "notStarted"
    /\ watchStop = FALSE
    /\ missed = FALSE
    /\ reloadQ = 0
    /\ inFetch = {}
    /\ fpc = "idle"
    /\ oldHtml = NoFile
    /\ docResp = Unknown
    /\ todo = <<>>
    /\ cssAssets = {}
    /\ changedAny = FALSE
    /\ remoteDoc = Unknown
    /\ remote = [u \in AssetUrls |-> Unknown]
    /\ changes = 0
    /\ seen = {}
    /\ files0 = cache
    /\ prev = NoPrev
    /\ lastDl = NoDownload

\* the first run of the program on a machine: the cache directory is empty
Start == StartWith([p \in LocalPaths |-> NoFile])

\* no call of safe_path_for_url is being looked at
NoMap == mapIn = <<TargetUrl, TargetUrl>> /\ mapOut = <<>>

\* no call of rewrite_html_to_local is being looked at
NoRewrite == rwIn = NoFile /\ rwOut = <<>>

\* the program before a plain origin, with or without preload paths, with a
\* refresh interval of one second
Init ==
    /\ Start
    /\ NoMap
    /\ NoRewrite
    /\ site = PlainSite
    /\ preload \in PreloadChoices
    /\ cfgInterval = 1

\* the program before an origin whose pages and bodies vary
FetchInit ==
    /\ Start
    /\ NoMap
    /\ NoRewrite
    /\ site = RichSite
    /\ preload = {}
    /\ cfgInterval = 1

(* --------------------------- fetch_snapshot --------------------------- *)

\* lines 165-170: a thread enters fetch_snapshot and reads old_html
FetchBegin(thread) ==
    /\ inFetch' = inFetch \cup {thread}
    /\ fpc' = "getDoc"
    /\ oldHtml' = files[IndexPath]
    /\ docResp' = Unknown
    /\ todo' = <<>>
    /\ cssAssets' = {}
    /\ changedAny' = FALSE
    /\ seen' = {}
    /\ files0' = files
    /\ prev' = IF fpc = "returned"
               THEN [doc |-> docResp,
                     got |-> [u \in AssetUrls |-> IF u \in seen THEN remote[u] ELSE Unknown]]
               ELSE prev
    /\ lastDl' = NoDownload
    /\ UNCHANGED <<files, originVars>>

\* what the origin answers for u: any body or an error when u is asked for the
\* first time, the same answer from then on, until the origin changes;
\* session.get of a data: URL raises InvalidSchema
Served(u) ==
    IF u.scheme = "data" THEN {Fail}
    ELSE IF remote[u] = Unknown THEN site.bodies \cup {Fail}
    ELSE {remote[u]}

ServedDoc == IF remoteDoc = Unknown THEN site.docs \cup {Fail} ELSE {remoteDoc}

\* the origin changes between two cycles: every URL may answer anew
OriginChanges ==
    /\ Alive
    /\ inFetch = {}
    /\ changes < MaxChanges
    /\ remoteDoc # Unknown
    /\ remoteDoc' = Unknown
    /\ remote' = [u \in AssetUrls |-> Unknown]
    /\ changes' = changes + 1
    /\ UNCHANGED <<files, cfgVars, mainVars, schedVars, watcherVars, stopVars,
                   reloadQ, fetchVars>>

\* the pass that follows when the first pass has visited rest and found css
AfterFirstPass(rest, css) ==
    /\ cssAssets' = css
    /\ IF rest # <<>> THEN fpc' = "pass1" /\ todo' = rest
       ELSE IF css # {} THEN fpc' = "pass2" /\ todo' = SortedUrls(css)
       ELSE fpc' = "persist" /\ todo' = <<>>

\* a fetch of the document without raise_for_status: an error page is a page
DocRaisesNoStatus(d) == "sched" \in inFetch /\ preload # {}

\* lines 173-182: whether fetching the document and collecting the assets raises:
\* raise_for_status on an error, and urljoin(target_url, rel), a TypeError for
\* the Path objects that RefetchThread is given as preload_paths
DocRaises(d) == d = Fail \/ ("sched" \in inFetch /\ preload # {})

\* lines 173-188: the primary document is fetched and its assets are collected
FetchDoc ==
    /\ Alive
    /\ fpc = "getDoc"
    /\ \E d \in ServedDoc :
        /\ docResp' = d
        /\ remoteDoc' = d
        /\ IF DocRaises(d)
           THEN fpc' = "raised" /\ UNCHANGED <<todo, cssAssets>>
           ELSE LET assets == ExtractAssetUrls(TargetUrl, d)
                              \cup {UrlJoin(TargetUrl, r) : r \in preload}
                IN  AfterFirstPass(SortedUrls(assets), {})
    /\ UNCHANGED <<files, inFetch, oldHtml, changedAny, remote, changes, seen,
                   files0, prev, lastDl>>
    /\ UNCHANGED <<cfgVars, mainVars, schedVars, watcherVars, stopVars, reloadQ>>

\* a write that leaves the file it wrote alone in the cache
StoredAlone(fs, dest, content) ==
    [p \in LocalPaths |-> IF p = dest THEN content ELSE NoFile]

\* lines 153-155: mkdir(parents=True, exist_ok=True), open(dest, "wb"), write
Stored(fs, dest, content) == [fs EXCEPT ![dest] = content]

\* download_file(session, u, safe_path_for_url(u)): resp is the origin's answer,
\* fsErr tells that mkdir or the write raises OSError
DownloadFile(u, resp, fsErr) ==
    LET dest  == SafeRel(u)
        write == DownloadWrites(resp, files[dest])
    IN  /\ remote' = [remote EXCEPT ![u] = resp]
        /\ seen' = seen \cup {u}
        /\ files' = IF write /\ ~fsErr THEN Stored(files, dest, resp) ELSE files
        /\ changedAny' = (changedAny \/ (write /\ ~fsErr))
        /\ lastDl' = [url |-> u, resp |-> resp, ret |-> write /\ ~fsErr,
                      raised |-> write /\ fsErr]

\* a first loop that reads no stylesheet
ParsesNothing(dest, file) == FALSE

\* line 197: local.suffix.lower() in {".css"} and local.exists()
ParsesCss(dest, file) == dest[Len(dest)].ext = "css" /\ file # NoFile

\* lines 191-202: one turn of the first loop
FirstPassStep ==
    /\ Alive
    /\ fpc = "pass1"
    /\ todo # <<>>
    /\ LET u == Head(todo)
           dest == SafeRel(u)
       IN  \E resp \in Served(u), fsErr \in BOOLEAN :
            IF EndsWithHtml(u)
            THEN /\ ~fsErr
                 /\ remote' = [remote EXCEPT ![u] = resp]
                 /\ seen' = seen \cup {u}
                 /\ AfterFirstPass(Tail(todo), cssAssets)
                 /\ UNCHANGED <<files, changedAny, lastDl>>
            ELSE /\ fsErr => DownloadWrites(resp, files[dest])
                 /\ DownloadFile(u, resp, fsErr)
                 /\ IF fsErr
                    THEN fpc' = "raised" /\ UNCHANGED <<todo, cssAssets>>
                    ELSE AfterFirstPass(
                            Tail(todo),
                            IF ParsesCss(dest, files'[dest])
                            THEN cssAssets \cup ExtractUrlsFromCss(u, files'[dest])
                            ELSE cssAssets)
    /\ UNCHANGED <<inFetch, oldHtml, docResp, remoteDoc, changes, files0, prev>>
    /\ UNCHANGED <<cfgVars, mainVars, schedVars, watcherVars, stopVars, reloadQ>>

\* lines 205-208: one turn of the second loop
SecondPassStep ==
    /\ Alive
    /\ fpc = "pass2"
    /\ todo # <<>>
    /\ LET u == Head(todo)
       IN  \E resp \in Served(u), fsErr \in BOOLEAN :
            /\ fsErr => DownloadWrites(resp, files[SafeRel(u)])
            /\ DownloadFile(u, resp, fsErr)
            /\ IF fsErr THEN fpc' = "raised" /\ todo' = todo
               ELSE IF Tail(todo) = <<>> THEN fpc' = "persist" /\ todo' = <<>>
               ELSE fpc' = "pass2" /\ todo' = Tail(todo)
    /\ UNCHANGED <<inFetch, oldHtml, docResp, cssAssets, remoteDoc, changes, files0, prev>>
    /\ UNCHANGED <<cfgVars, mainVars, schedVars, watcherVars, stopVars, reloadQ>>

\* lines 211-217: the rewritten document is stored when it differs from old_html
Persist ==
    /\ Alive
    /\ fpc = "persist"
    /\ LET newHtml == RewriteHtmlToLocal(docResp, TargetUrl)
       IN  \E fsErr \in BOOLEAN :
            /\ fsErr => oldHtml # newHtml
            /\ IF oldHtml # newHtml /\ ~fsErr
               THEN files' = [files EXCEPT ![IndexPath] = newHtml] /\ changedAny' = TRUE
               ELSE UNCHANGED <<files, changedAny>>
            /\ fpc' = IF fsErr THEN "raised" ELSE "returned"
    /\ UNCHANGED <<inFetch, oldHtml, docResp, todo, cssAssets, originVars, seen,
                   files0, prev, lastDl>>
    /\ UNCHANGED <<cfgVars, mainVars, schedVars, watcherVars, stopVars, reloadQ>>

(* -------------------------------- main -------------------------------- *)

\* ensure_initial_cache, line 290: the bootstrap cycle starts on the main thread
BootBegin ==
    /\ mainPc = "boot"
    /\ mainPc' = "bootFetch"
    /\ FetchBegin("main")
    /\ UNCHANGED <<serverUp, cfgVars, schedVars, watcherVars, stopVars, reloadQ>>

\* ensure_initial_cache, lines 291-315: the result is returned, or the except
\* branch copies the bundled backup files and writes the placeholder
BootAfterFetch ==
    /\ mainPc = "bootFetch"
    /\ "main" \in inFetch
    /\ fpc \in {"returned", "raised"}
    /\ inFetch' = inFetch \ {"main"}
    /\ mainPc' = "serve"
    /\ IF fpc = "returned" THEN UNCHANGED files
       ELSE \E hasBackupHtml \in BOOLEAN, hasBackupCss \in BOOLEAN :
            LET copied == [files EXCEPT
                    ![IndexPath] = IF hasBackupHtml THEN BackupDoc ELSE @,
                    ![BackupCssPath] = IF hasBackupCss THEN BackupCss ELSE @]
            IN  files' = IF copied[IndexPath] = NoFile
                         THEN [copied EXCEPT ![IndexPath] = Placeholder]
                         ELSE copied
    /\ UNCHANGED <<fpc, oldHtml, docResp, todo, cssAssets, changedAny, originVars,
                   seen, files0, prev, lastDl>>
    /\ UNCHANGED <<serverUp, cfgVars, schedVars, watcherVars, stopVars, reloadQ>>

\* RefetchThread.__init__ that takes the configured interval as it is
ClampNone(i) == i

\* RefetchThread.__init__, line 226
ClampInterval(i) == IF i < MinInterval THEN MinInterval ELSE i

\* main that starts the threads while ensure_initial_cache still runs
BootDoneEarly == mainPc = "bootFetch" /\ schedPc = "notStarted"

\* main, lines 336-338: ensure_initial_cache has returned
BootDone == mainPc = "serve"

\* main, lines 338-354: the server, the window and both threads are started
MainStart ==
    /\ BootDone
    /\ mainPc' = "webview"
    /\ serverUp' = TRUE
    /\ interval' = ClampInterval(cfgInterval)
    /\ schedPc' = "loop"
    /\ watcherPc' = "loop"
    /\ UNCHANGED <<files, cfgVars, slept, cycles, stopVars, missed, reloadQ,
                   fetchVars, originVars>>

\* main, lines 357-359: webview.start() returns and refetcher.stop() is called
MainStopRefetcher ==
    /\ mainPc = "webview"
    /\ mainPc' = "stopWatcher"
    /\ refStop' = TRUE
    /\ UNCHANGED <<files, serverUp, cfgVars, schedVars, watcherVars, watchStop,
                   reloadQ, fetchVars,
                   originVars>>

\* main, line 360: watcher.stop()
MainStopWatcher ==
    /\ mainPc = "stopWatcher"
    /\ mainPc' = "shutdown"
    /\ watchStop' = TRUE
    /\ UNCHANGED <<files, serverUp, cfgVars, schedVars, watcherVars, refStop,
                   reloadQ, fetchVars,
                   originVars>>

\* main, lines 361-365: server.shutdown() and server.server_close()
MainShutdown ==
    /\ mainPc = "shutdown"
    /\ mainPc' = "closed"
    /\ serverUp' = FALSE
    /\ UNCHANGED <<files, cfgVars, schedVars, watcherVars, stopVars, reloadQ, fetchVars,
                   originVars>>

\* main returns: the interpreter exits and takes the daemon threads with it
MainExit ==
    /\ mainPc = "closed"
    /\ mainPc' = "exited"
    /\ UNCHANGED <<files, serverUp, cfgVars, schedVars, watcherVars, stopVars,
                   reloadQ, fetchVars,
                   originVars>>

(* ---------------------------- RefetchThread ---------------------------- *)

\* run, lines 236-238: the loop test passes and a cycle starts
SchedLoop ==
    /\ Alive
    /\ schedPc = "loop"
    /\ ~refStop
    /\ cycles < MaxCycles
    /\ schedPc' = "fetch"
    /\ cycles' = cycles + 1
    /\ FetchBegin("sched")
    /\ UNCHANGED <<interval, slept, cfgVars, mainVars, watcherVars, stopVars, reloadQ>>

\* run, line 236: the loop test fails and the thread ends
SchedExit ==
    /\ Alive
    /\ schedPc = "loop"
    /\ refStop
    /\ schedPc' = "exited"
    /\ UNCHANGED <<files, interval, slept, cycles, cfgVars, mainVars, watcherVars,
                   stopVars, reloadQ, fetchVars,
                   originVars>>

\* run that puts a message for every cycle that returns
PutsAlways(end, changed) == IF end = "returned" THEN 1 ELSE 0

\* run, lines 239-243: the messages put for a cycle that ended in state end
Puts(end, changed) == IF end = "returned" /\ changed THEN 1 ELSE 0

\* run without the except clause: an exception ends the thread
AfterCycleNoExcept(end) == IF end = "raised" THEN "exited" ELSE "sleep"

\* run, lines 237-245: where run goes on when the cycle ended in state end
AfterCycle(end) == "sleep"

\* run, lines 238-245: fetch_snapshot returned or raised; the sleep starts
SchedAfterFetch ==
    /\ Alive
    /\ schedPc = "fetch"
    /\ "sched" \in inFetch
    /\ fpc \in {"returned", "raised"}
    /\ inFetch' = inFetch \ {"sched"}
    /\ reloadQ' = reloadQ + Puts(fpc, changedAny)
    /\ slept' = 0
    /\ schedPc' = AfterCycle(fpc)
    /\ UNCHANGED <<fpc, oldHtml, docResp, todo, cssAssets, changedAny, originVars,
                   seen, files0, prev, lastDl>>
    /\ UNCHANGED <<files, interval, cycles, cfgVars, mainVars, watcherVars, stopVars>>

\* a sleep loop that does not look at the stop flag
SleepingDeaf == slept < interval

\* run, line 246: the test of the sleep loop
Sleeping == slept < interval /\ ~refStop

\* run, lines 247-248: time.sleep(1); slept += 1
SchedTick ==
    /\ Alive
    /\ schedPc = "sleep"
    /\ Sleeping
    /\ slept' = slept + 1
    /\ UNCHANGED <<files, schedPc, interval, cycles, cfgVars, mainVars, watcherVars,
                   stopVars, reloadQ, fetchVars,
                   originVars>>

\* run, line 246: the sleep loop ends
SchedWake ==
    /\ Alive
    /\ schedPc = "sleep"
    /\ ~Sleeping
    /\ schedPc' = "loop"
    /\ UNCHANGED <<files, interval, slept, cycles, cfgVars, mainVars, watcherVars,
                   stopVars, reloadQ, fetchVars,
                   originVars>>

(* ---------------------------- ReloadWatcher ---------------------------- *)

\* run, lines 262-264: the loop test passes and get returns a message
WatcherGet ==
    /\ Alive
    /\ watcherPc = "loop"
    /\ ~watchStop
    /\ reloadQ > 0
    /\ reloadQ' = reloadQ - 1
    /\ watcherPc' = "reload"
    /\ UNCHANGED <<files, cfgVars, mainVars, schedVars, stopVars, missed, fetchVars,
                   originVars>>

\* run, lines 262-266: the loop test passes, get times out (queue.Empty), continue
WatcherTimeout ==
    /\ Alive
    /\ watcherPc = "loop"
    /\ ~watchStop
    /\ reloadQ = 0
    /\ UNCHANGED vars

\* run, line 262: the loop test fails and the thread ends
WatcherExit ==
    /\ Alive
    /\ watcherPc = "loop"
    /\ watchStop
    /\ watcherPc' = "exited"
    /\ UNCHANGED <<files, cfgVars, mainVars, schedVars, stopVars, missed,
                   reloadQ, fetchVars,
                   originVars>>

\* run, lines 267-272: evaluate_js reloads the window, or raises and is ignored
WatcherReload ==
    /\ Alive
    /\ watcherPc = "reload"
    /\ watcherPc' = "loop"
    /\ \E ok \in BOOLEAN : missed' = ~ok
    /\ UNCHANGED <<files, cfgVars, mainVars, schedVars, stopVars, reloadQ, fetchVars,
                   originVars>>

(* ---------------------------- specification ---------------------------- *)

Fetch == FetchDoc \/ FirstPassStep \/ SecondPassStep \/ Persist

Main ==
    \/ BootBegin
    \/ BootAfterFetch
    \/ MainStart
    \/ MainStopRefetcher
    \/ MainStopWatcher
    \/ MainShutdown
    \/ MainExit

Scheduler == SchedLoop \/ SchedExit \/ SchedAfterFetch \/ SchedTick \/ SchedWake

Watcher == WatcherGet \/ WatcherTimeout \/ WatcherExit \/ WatcherReload

Next == OriginChanges \/ Fetch \/ Main \/ Scheduler \/ Watcher

Spec == Init /\ [][Next]_vars

\* the program before a plain origin, for every configured interval
TimerInit ==
    /\ Start
    /\ NoMap
    /\ NoRewrite
    /\ site = PlainSite
    /\ preload \in PreloadChoices
    /\ cfgInterval \in IntervalChoices

TimerSpec == TimerInit /\ [][Next]_vars

\* the threads that fetch (main's bootstrap, RefetchThread) before a rich origin.
\* ReloadWatcher and the shutdown of main write none of the variables a fetch
\* cycle reads, so the cache and the cycle take the same values with them.
FetchNext ==
    \/ OriginChanges
    \/ Fetch
    \/ BootBegin
    \/ BootAfterFetch
    \/ MainStart
    \/ SchedLoop
    \/ SchedAfterFetch
    \/ SchedTick
    \/ SchedWake

FetchSpec == FetchInit /\ [][FetchNext]_vars

\* the program with threads that are scheduled and calls that return: a step
\* of RefetchThread, of ReloadWatcher or of a fetch cycle that stays possible
\* is taken; main may stay in webview.start() for ever
LiveSpec == Spec /\ WF_vars(Scheduler) /\ WF_vars(Watcher) /\ WF_vars(Fetch)

(* ------------------- the bootstrap of a later run ---------------------- *)

\* the caches an earlier run may have left: nothing, or the rewritten document,
\* with or without its script
PriorCaches ==
    {[p \in LocalPaths |->
        IF p = IndexPath THEN doc ELSE IF p = SafeRel(RefJs) THEN js ELSE NoFile] :
     doc \in {NoFile, RewriteHtmlToLocal(DocPlain, TargetUrl)},
     js \in {NoFile, BodyLinked}}

RestartInit ==
    /\ \E cache \in PriorCaches : StartWith(cache)
    /\ NoMap
    /\ NoRewrite
    /\ site = PlainSite
    /\ preload \in PreloadChoices
    /\ cfgInterval = 1

\* ensure_initial_cache alone: the bootstrap cycle and its except branch
RestartNext == BootBegin \/ Fetch \/ BootAfterFetch

RestartSpec == RestartInit /\ [][RestartNext]_vars

(* --------------------- the Path Mapper on its own ---------------------- *)

MapHosts == {"h1", "h2"}

\* "/", "/index", "/a.css", "/d", "/d/", "/d/a.css", "/d//a.css"
MapPaths ==
    { <<>>,
      <<Seg("index", "")>>,
      <<Seg("a", "css")>>,
      <<Seg("d", "")>>,
      <<Seg("d", ""), EmptySeg>>,
      <<Seg("d", ""), Seg("a", "css")>>,
      <<Seg("d", ""), EmptySeg, Seg("a", "css")>> }

MapQueries == {"", "v2"}

MapUrls == {Url(h, p, q) : h \in MapHosts, p \in MapPaths, q \in MapQueries}

MapInit ==
    /\ Start
    /\ site = PlainSite
    /\ preload = {}
    /\ cfgInterval = 1
    /\ mapIn \in MapUrls \X MapUrls
    /\ mapOut = <<>>
    /\ NoRewrite

\* safe_path_for_url is called for both URLs
MapUrl ==
    /\ mapOut = <<>>
    /\ mapOut' = <<SafeRel(mapIn[1]), SafeRel(mapIn[2])>>
    /\ UNCHANGED <<files, site, preload, cfgInterval, mapIn, rwIn, rwOut, mainVars,
                   schedVars, watcherVars, stopVars, reloadQ, fetchVars, originVars>>

MapSpec == MapInit /\ [][MapUrl]_vars

(* ------------------ the Document Rewriter on its own ------------------- *)

\* "http://h2/d/" and "/d/a.css?v2", with the references of the documents
RwRefs ==
    Refs \cup {Url("h2", <<Seg("d", ""), EmptySeg>>, ""),
               Url("", <<Seg("d", ""), Seg("a", "css")>>, "v2")}

\* the documents given to the rewriter: any of the references, <base> or none
RwDocs == {Bytes(30, R, b) : R \in SUBSET RwRefs, b \in BOOLEAN}

RewriteInit ==
    /\ Start
    /\ NoMap
    /\ site = PlainSite
    /\ preload = {}
    /\ cfgInterval = 1
    /\ rwIn \in RwDocs
    /\ rwOut = <<>>

\* rewrite_html_to_local is called for the document, then for its own result
RewriteAgain ==
    /\ Len(rwOut) < 2
    /\ rwOut' = Append(rwOut, RewriteHtmlToLocal(
                    IF rwOut = <<>> THEN rwIn ELSE rwOut[Len(rwOut)], TargetUrl))
    /\ UNCHANGED <<files, site, preload, cfgInterval, mapIn, mapOut, rwIn, mainVars,
                   schedVars, watcherVars, stopVars, reloadQ, fetchVars, originVars>>

RewriteSpec == RewriteInit /\ [][RewriteAgain]_vars

(* ------------------------------- claims -------------------------------- *)

\* the cycle has returned a SnapshotResult that its caller has yet to read
Returned == fpc = "returned" /\ inFetch # {}

\* the URLs this cycle called download_file for: every URL reached, but the
\* first-level ones that end in .html and were not found in a stylesheet
Downloaded(u) == u \in seen /\ (~EndsWithHtml(u) \/ u \in cssAssets)

\* the URLs the primary document or a first-level stylesheet refers to
Referenced == ExtractAssetUrls(TargetUrl, docResp) \cup cssAssets

\* u was answered with bytes
Answered(u) == remote[u] \notin {Unknown, Fail}

\* C1 as stated: a cycle that completes and gets, for the document and for every
\* asset it refers to, the bytes the preceding completed cycle got, returns
\* changed = false.
C1_SameAnswersUnchanged ==
    (/\ Returned
     /\ prev.doc # Unknown
     /\ docResp = prev.doc
     /\ \A u \in seen : remote[u] = prev.got[u])
    => ~changedAny

\* C1 amended: a cycle that completes returns changed = false when the
\* rewritten document equals the cached index.html and every asset it downloads
\* with success equals the copy cached at its local path before the cycle.
C1_CachedCopiesUnchanged ==
    (/\ Returned
     /\ RewriteHtmlToLocal(docResp, TargetUrl) = files0[IndexPath]
     /\ \A u \in seen : Downloaded(u) /\ Answered(u) => remote[u] = files0[SafeRel(u)])
    => ~changedAny /\ files = files0

\* a second cycle over an unchanged cache: a stylesheet was downloaded, found
\* equal to its cached copy, and the cycle reports no change
C1_Witness ==
    /\ Returned
    /\ prev.doc # Unknown
    /\ RewriteHtmlToLocal(docResp, TargetUrl) = files0[IndexPath]
    /\ \E u \in seen : Downloaded(u) /\ Answered(u)
    /\ \A u \in seen : Downloaded(u) /\ Answered(u) => remote[u] = files0[SafeRel(u)]
    /\ ~changedAny

\* C2 as stated: a cycle that completes returns changed = true when the bytes
\* of an asset the document or a first-level stylesheet refers to differ from
\* the bytes cached for it before the cycle.
C2_AnyAssetDiffersChanged ==
    (/\ Returned
     /\ \E u \in Referenced : Answered(u) /\ remote[u] # files0[SafeRel(u)])
    => changedAny

\* C2 amended: the same of an asset the cycle downloads, which leaves out the
\* assets of the document whose URL ends in .html.
C2_DownloadedAssetDiffersChanged ==
    (/\ Returned
     /\ \E u \in Referenced :
            Downloaded(u) /\ Answered(u) /\ remote[u] # files0[SafeRel(u)])
    => changedAny

\* a cycle met a downloaded asset whose cached copy existed and differed
C2_Witness ==
    /\ Returned
    /\ changedAny
    /\ \E u \in Referenced :
        /\ Downloaded(u)
        /\ Answered(u)
        /\ files0[SafeRel(u)] # NoFile
        /\ remote[u] # files0[SafeRel(u)]

\* C3 as stated: once a cycle has completed, index.html holds the rewritten
\* form of the document that the most recent completed cycle fetched.
C3_IndexIsRewrittenDocument ==
    /\ fpc = "returned" => files[IndexPath] = RewriteHtmlToLocal(docResp, TargetUrl)
    /\ (fpc \in {"getDoc", "pass1", "pass2", "persist", "raised"} /\ prev.doc # Unknown)
        => files[IndexPath] = RewriteHtmlToLocal(prev.doc, TargetUrl)

\* the local path as C4 gives it: the host, then the URL's path, with index.html
\* for an empty final segment and .html added to a final segment without extension
ExpectedRel(u) ==
    LET n == Len(u.path)
        segs == IF n = 0 THEN <<Seg("index", "html")>>
                ELSE IF u.path[n] = EmptySeg
                     THEN [u.path EXCEPT ![n] = Seg("index", "html")]
                ELSE IF u.path[n].ext = ""
                     THEN [u.path EXCEPT ![n] = Seg(u.path[n].stem, "html")]
                ELSE u.path
    IN  <<Seg(u.host, "")>> \o segs

\* C4 as stated: a URL is mapped to <host>/<path>, with index.html for an empty
\* final segment and .html for a final segment without extension, and two URLs
\* with different hosts or different paths are mapped to different paths.
C4_HostAndPathKept ==
    mapOut # <<>> =>
        /\ mapOut[1] = ExpectedRel(mapIn[1])
        /\ mapOut[2] = ExpectedRel(mapIn[2])
        /\ (mapIn[1].host # mapIn[2].host \/ mapIn[1].path # mapIn[2].path)
            => mapOut[1] # mapOut[2]

\* a step of one of the two loops that calls download_file
DownloadStep ==
    /\ fpc \in {"pass1", "pass2"}
    /\ todo # <<>>
    /\ fpc' # fpc \/ todo' # todo
    /\ ~(fpc = "pass1" /\ EndsWithHtml(Head(todo)))

\* C5: when the download of an asset fails with a network or status error,
\* download_file returns false, the cache is as it was, and the cycle goes on
\* with the assets that are left.
C5_FailedDownloadIsSoft ==
    [][(DownloadStep /\ remote'[Head(todo)] = Fail) =>
            /\ files' = files
            /\ changedAny' = changedAny
            /\ lastDl'.url = Head(todo) /\ lastDl'.resp = Fail /\ ~lastDl'.ret
            /\ fpc' # "raised"
            /\ fpc' = fpc => todo' = Tail(todo)]_vars

\* a cycle returned although one download failed, and stored another asset
C5_Witness ==
    /\ Returned
    /\ \E u \in seen, v \in seen :
        /\ Downloaded(u) /\ remote[u] = Fail /\ files[SafeRel(u)] = files0[SafeRel(u)]
        /\ Downloaded(v) /\ Answered(v) /\ files[SafeRel(v)] = remote[v]
        /\ SafeRel(u) # SafeRel(v)
        /\ UrlKey(u) < UrlKey(v)

\* C6 as stated: an OSError while an asset is written does not leave the cycle:
\* the cycle goes on and returns.
C6_AssetWriteErrorAbsorbed == lastDl.raised => fpc # "raised"

\* C7: when the fetch of the primary document fails, the cycle ends in an
\* error, no asset is asked for and the cache is as it was before the cycle.
C7_DocumentFailureAborts ==
    (docResp = Fail /\ inFetch # {}) =>
        /\ fpc = "raised"
        /\ files = files0
        /\ seen = {}
        /\ lastDl = NoDownload
        /\ ~changedAny

\* the document could not be fetched in a cycle that found a cache from before
C7_Witness ==
    /\ docResp = Fail
    /\ inFetch # {}
    /\ fpc = "raised"
    /\ files0[IndexPath] # NoFile
    /\ \E p \in LocalPaths \ {IndexPath} : files0[p] # NoFile

\* RefetchThread enters fetch_snapshot
CycleStarts == "sched" \notin inFetch /\ "sched" \in inFetch'

\* C8: at most one fetch cycle runs at any time, the bootstrap cycle included,
\* and RefetchThread starts a cycle only when no cycle runs and, after its
\* first, when the sleep that followed the previous cycle is over.
C8_CyclesNeverOverlap ==
    /\ [](Cardinality(inFetch) <= 1)
    /\ [][CycleStarts =>
            /\ inFetch = {}
            /\ fpc \in {"returned", "raised"}
            /\ schedPc = "loop"
            /\ cycles > 0 => slept >= interval]_vars

\* the second cycle of RefetchThread runs, after the bootstrap cycle and a sleep
C8_Witness == inFetch = {"sched"} /\ cycles = 2 /\ slept = interval /\ fpc = "pass1"

\* RefetchThread leaves fetch_snapshot: it returned or raised
CycleEnds == "sched" \in inFetch /\ "sched" \notin inFetch'

\* C9: RefetchThread puts exactly one message on the queue for a cycle that
\* returns changed = true, none for a cycle that returns changed = false or
\* raises, and none at any other time.
C9_OneSignalPerChangedCycle ==
    [][/\ CycleEnds =>
            reloadQ' = reloadQ + (IF fpc = "returned" /\ changedAny THEN 1 ELSE 0)
       /\ ~CycleEnds => reloadQ' <= reloadQ]_vars

\* RefetchThread sleeps after a cycle that changed the cache; its message waits
C9_Witness ==
    /\ schedPc = "sleep"
    /\ fpc = "returned"
    /\ changedAny
    /\ reloadQ = 1
    /\ cycles = 1

\* C10: an exception of a cycle does not end RefetchThread: nothing is put on
\* the queue, the sleep starts, and the next cycle starts unless the stop flag
\* is set (while the thread may start cycles: cycles < MaxCycles).
C10_ErrorIsFollowedByCycle ==
    /\ [][(CycleEnds /\ fpc = "raised") =>
            schedPc' = "sleep" /\ slept' = 0 /\ reloadQ' = reloadQ]_vars
    /\ \A n \in 1..(MaxCycles - 1) :
        (schedPc = "fetch" /\ fpc = "raised" /\ cycles = n)
            ~> (refStop \/ cycles = n + 1)

\* with preload paths every cycle of RefetchThread raises: the second one runs
C10_Witness ==
    /\ preload # {}
    /\ cycles = 2
    /\ inFetch = {"sched"}
    /\ fpc = "raised"
    /\ ~refStop

\* C11: for any configured interval, 1 included, RefetchThread lets at least 10
\* ticks of one second pass between the end of one of its cycles and the start
\* of its next one, whether the earlier cycle returned or raised.
C11_TenTicksBetweenCycles ==
    [][(CycleStarts /\ cycles > 0) =>
            /\ interval >= MinInterval
            /\ slept >= MinInterval]_vars

\* configured with an interval of 1, RefetchThread starts its second cycle
\* after ten ticks
C11_Witness ==
    /\ cfgInterval = 1
    /\ cycles = 2
    /\ inFetch = {"sched"}
    /\ fpc = "getDoc"
    /\ slept = MinInterval

\* C12 as stated: when a reload has failed in ReloadWatcher, the next cycle of
\* RefetchThread that returns leaves a message on the queue, so that the
\* reload is attempted again (while neither thread is told to stop).
C12_MissedReloadRecovered ==
    [][(CycleEnds /\ fpc = "returned" /\ missed /\ ~refStop /\ ~watchStop) =>
            reloadQ' > 0]_vars

\* C13 as stated: when the server is shut down, both threads have been told to
\* stop and have ended: RefetchThread is in no fetch cycle and ReloadWatcher
\* does not run.
C13_ThreadsJoinedBeforeShutdown ==
    [][(serverUp /\ ~serverUp') =>
            /\ refStop /\ watchStop
            /\ schedPc = "exited" /\ "sched" \notin inFetch
            /\ watcherPc = "exited"]_vars

\* C14: once its stop flag is set a thread ends, given that a fetch or a reload
\* that is under way returns: RefetchThread starts no cycle and sleeps no
\* further tick, ReloadWatcher takes no further message, and both reach the
\* end of run (unless the process has ended before, which ends them too).
C14_StopEndsTheLoops ==
    /\ [][refStop => ~CycleStarts]_vars
    /\ [][(refStop /\ schedPc = "sleep") => slept' = slept]_vars
    /\ [][(watchStop /\ watcherPc = "loop") =>
                (reloadQ' >= reloadQ /\ watcherPc' # "reload")]_vars
    /\ refStop ~> (schedPc = "exited" \/ ~Alive)
    /\ watchStop ~> (watcherPc = "exited" \/ ~Alive)

\* both threads have ended while the process runs; RefetchThread was stopped
\* in the middle of its sleep, ReloadWatcher before an empty queue
C14_Witness ==
    /\ Alive
    /\ refStop /\ watchStop
    /\ schedPc = "exited"
    /\ watcherPc = "exited"
    /\ cycles = 1
    /\ slept > 0 /\ slept < interval
    /\ reloadQ = 0

\* the assets of the first loop: those of the document and the preload paths
FirstLevel ==
    ExtractAssetUrls(TargetUrl, docResp) \cup {UrlJoin(TargetUrl, r) : r \in preload}

\* a first-level asset that the first loop stores as a .css file
FirstLevelCss(u) ==
    /\ u \in FirstLevel
    /\ ~EndsWithHtml(u)
    /\ SafeRel(u)[Len(SafeRel(u))].ext = "css"

\* the cycle is past the fetch of the document and has not raised
InPasses == inFetch # {} /\ fpc \in {"pass1", "pass2", "persist", "returned"}

\* C15: discovery is two levels deep.  The URLs found in a stylesheet of the
\* first level are collected and, when the cycle returns, have been asked for;
\* every URL the cycle asks for is of the first level or was found in a
\* stylesheet of the first level (in the answer or in the cached copy); and
\* the second loop reads no file: it adds no URL to visit.
C15_TwoLevelsOnly ==
    /\ [](InPasses =>
            /\ seen \subseteq FirstLevel \cup cssAssets
            /\ \A v \in cssAssets : \E u \in seen :
                    /\ FirstLevelCss(u)
                    /\ \/ v \in ExtractUrlsFromCss(u, remote[u])
                       \/ v \in ExtractUrlsFromCss(u, files0[SafeRel(u)]))
    /\ []((InPasses /\ fpc # "pass1") =>
            \A u \in FirstLevel : (FirstLevelCss(u) /\ Answered(u)) =>
                    ExtractUrlsFromCss(u, remote[u]) \subseteq cssAssets)
    /\ [](Returned => cssAssets \subseteq seen)
    /\ [][fpc = "pass2" =>
            /\ cssAssets' = cssAssets
            /\ todo' = todo \/ todo' = Tail(todo)]_vars

\* a cycle has returned: it stored a file of the second level that refers to
\* a URL the cycle never asked for
C15_Witness ==
    /\ Returned
    /\ \E v \in (cssAssets \cap seen) \ FirstLevel :
        /\ Answered(v)
        /\ files[SafeRel(v)] = remote[v]
        /\ \E w \in ExtractUrlsFromCss(v, remote[v]) : w \notin seen

\* the elements of a sequence
Range(q) == {q[i] : i \in 1..Len(q)}

\* C16 as stated: no data: URL is among the asset URLs that extraction gives
\* for the document or for a stylesheet: a cycle never has one to visit, never
\* asks for one and never maps one to a local path.
C16_NoDataUrlIsAnAsset ==
    \A u \in Range(todo) \cup seen \cup cssAssets : u.scheme # "data"

\* what C16 says of stylesheets alone: no data: URL is found in a stylesheet
C16_NoDataUrlFromCss == \A u \in cssAssets : u.scheme # "data"

\* C17 as stated: rewriting is idempotent: the rewriter applied to a document
\* it has rewritten (same base URL, same cache root) leaves every reference
\* and the <base> element as they are.
C17_RewriteIsIdempotent == Len(rwOut) = 2 => rwOut[2] = rwOut[1]

\* what C17 says of documents that hold no data: URI
C17_IdempotentWithoutDataUrls ==
    (Len(rwOut) = 2 /\ \A r \in rwIn.refs : r.scheme # "data") => rwOut[2] = rwOut[1]

\* C18: the set of files in the cache never shrinks: no step of a fetch cycle,
\* of the bootstrap or of the shutdown removes a file that exists.
C18_CacheNeverShrinks ==
    [][\A p \in LocalPaths : files[p] # NoFile => files'[p] # NoFile]_vars

\* the process has ended after a cycle that stored files and a later cycle
\* that raised: the document and an asset are in the cache
C18_Witness ==
    /\ mainPc = "exited"
    /\ cycles = 2
    /\ fpc = "raised"
    /\ files[IndexPath] # NoFile
    /\ files[SafeRel(RefJs)] # NoFile

\* ensure_initial_cache leaves its except branch
FallbackStep == mainPc = "bootFetch" /\ mainPc' = "serve" /\ fpc = "raised"

\* C19 as stated: when the bootstrap fetch fails and index.html is in the cache
\* from an earlier run, the fallback leaves that document as it is; the
\* placeholder is written only when the cache holds no index.html.
C19_FallbackKeepsCachedDocument ==
    [][FallbackStep =>
            /\ files0[IndexPath] # NoFile => files'[IndexPath] = files0[IndexPath]
            /\ files'[IndexPath] = Placeholder => files[IndexPath] = NoFile]_vars

\* C20 as stated: a cycle of RefetchThread that has created or modified a file
\* of the cache puts a message on the queue when it ends, also when it ends
\* in an error after it has written assets.
C20_EveryWriteIsSignalled ==
    [][(CycleEnds /\ files # files0) => reloadQ' = reloadQ + 1]_vars

\* what C20 says of the cycles that return
C20_ReturnedWriteIsSignalled ==
    [][(CycleEnds /\ fpc = "returned" /\ files # files0) =>
            reloadQ' = reloadQ + 1]_vars

====
